---- MODULE Spec2Model ----
(***************************************************************************)
(* Tag-mapping resolution of navidrome (package metadata): the accessors   *)
(* mappings(), rolesConf() and artistsConf() over the sync.OnceValues      *)
(* wrapper parseMappings, and the normalizer collectTags.                  *)
(*                                                                         *)
(* Strings are sequences of one-character strings, so that lower-casing    *)
(* is computed and not assumed.  A Go slice is a record [nil, elems]: the  *)
(* code tests "v.Split != nil", which tells a nil slice from an empty one. *)
(*                                                                         *)
(* The insights collector (package metrics): Collect over the              *)
(* sync.OnceValue staticData and the rate limiter libraryUpdate.           *)
(***************************************************************************)
EXTENDS Integers, Sequences, FiniteSets, TLC

(* ------------------------------ bounds -------------------------------- *)

\* number of goroutines that call the accessors
NumThreads == 2

\* number of tag entries of a document of NormDocs, both tiers together
MaxEntries == 2

\* number of Collect calls
MaxCollects == 3

\* number of times the clock advances
MaxTicks == 1

\* largest count of a table of the data store
MaxCount == 1

Threads == 1..NumThreads

(* ------------------------------ strings ------------------------------- *)

UpperChars == <<"A","B","C","D","E","F","G","H","I","J","K","L","M",
                "N","O","P","Q","R","S","T","U","V","W","X","Y","Z">>

LowerChars == <<"a","b","c","d","e","f","g","h","i","j","k","l","m",
                "n","o","p","q","r","s","t","u","v","w","x","y","z">>

IsUpperChar(c) == \E i \in 1..Len(UpperChars) : UpperChars[i] = c

ToLowerChar(c) ==
    IF IsUpperChar(c)
    THEN LowerChars[CHOOSE i \in 1..Len(UpperChars) : UpperChars[i] = c]
    ELSE c

\* strings.ToLower
ToLower(s) == [i \in 1..Len(s) |-> ToLowerChar(s[i])]

\* model.TagName.ToLower
TagNameToLower(k) == ToLower(k)

(* ------------------------------ slices -------------------------------- *)

NilSlice == [nil |-> TRUE, elems |-> <<>>]

Slice(es) == [nil |-> FALSE, elems |-> es]

\* append(s, x)
AppendSlice(s, x) == [nil |-> FALSE, elems |-> Append(s.elems, x)]

(* ------------------------------ tagConf ------------------------------- *)

TagTypeNone == <<>>

TagTypeInteger == <<"i","n","t","e","g","e","r">>

TagTypeDate == <<"d","a","t","e">>

TagConf(aliases, type, maxLength, split) ==
    [Aliases |-> aliases, Type |-> type, MaxLength |-> maxLength, Split |-> split]

\* the zero value of tagConf
ZeroTagConf == TagConf(NilSlice, TagTypeNone, 0, NilSlice)

\* an empty tagMappings
EmptyTagMappings == [k \in {} |-> ZeroTagConf]

MappingsConf(main, additional, roles, artists) ==
    [Main |-> main, Additional |-> additional, Roles |-> roles, Artists |-> artists]

\* the zero value of mappingsConf
ZeroMappingsConf ==
    MappingsConf(EmptyTagMappings, EmptyTagMappings, ZeroTagConf, ZeroTagConf)

\* Put that keeps the entry a key already has
PutKeepFirst(m, k, c) == [x \in (DOMAIN m) \cup {k} |-> IF x \in DOMAIN m THEN m[x] ELSE c]

\* m[k] = c on a Go map
Put(m, k, c) == [x \in (DOMAIN m) \cup {k} |-> IF x = k THEN c ELSE m[x]]

(* ---------------------------- collectTags ----------------------------- *)

\* AliasLoop that appends val as it is
RECURSIVE AliasLoopNoLower(_, _, _)
AliasLoopNoLower(src, i, aliases) ==
    IF i > Len(src.elems)
    THEN aliases
    ELSE AliasLoopNoLower(src, i + 1, AppendSlice(aliases, src.elems[i]))

\* for _, val := range v.Aliases { aliases = append(aliases, strings.ToLower(val)) }
RECURSIVE AliasLoop(_, _, _)
AliasLoop(src, i, aliases) ==
    IF i > Len(src.elems)
    THEN aliases
    ELSE AliasLoop(src, i + 1, AppendSlice(aliases, ToLower(src.elems[i])))

\* SplitConflict with the test of the type inverted
SplitConflictUntyped(v) == (~v.Split.nil) /\ v.Type = TagTypeNone

\* if v.Split != nil && v.Type != ""
SplitConflict(v) == (~v.Split.nil) /\ v.Type # TagTypeNone

\* NormalizedConf that leaves MaxLength at its zero value
NormalizedConfNoMaxLength(v) ==
    TagConf(AliasLoop(v.Aliases, 1, NilSlice),
            v.Type,
            0,
            IF SplitConflict(v) THEN NilSlice ELSE v.Split)

\* the entry that one iteration of collectTags stores for the source entry v
NormalizedConf(v) ==
    TagConf(AliasLoop(v.Aliases, 1, NilSlice),
            v.Type,
            v.MaxLength,
            IF SplitConflict(v) THEN NilSlice ELSE v.Split)

(* --------------------------- log messages ----------------------------- *)

ErrOpening == "Error opening mappings.yaml"

ErrDecoding == "Error decoding mappings.yaml"

ErrSplit == "Tag splitting only available for string types"

NoTag == <<>>

LogEntry(msg, tag) == [msg |-> msg, tag |-> tag]

(* ----------------------------- documents ------------------------------ *)

S1(a) == <<a>>

Str_year == <<"y","e","a","r">>

Str_genre == <<"g","e","n","r","e">>

Str_date == <<"d","a","t","e">>

Str_genres == <<"g","e","n","r","e","s">>

Str_releaseyear == <<"r","e","l","e","a","s","e","y","e","a","r">>

Str_ROLE == <<"R","O","L","E">>

Str_role == <<"r","o","l","e">>

Str_Year == <<"Y","e","a","r">>

Str_Date == <<"D","a","t","e">>

Str_TYER == <<"T","Y","E","R">>

\* the document of the end-to-end example
ExampleConf ==
    MappingsConf(
        [k \in {Str_year, Str_genre} |->
            IF k = Str_year
            THEN TagConf(Slice(<<Str_date>>), TagTypeInteger, 0, NilSlice)
            ELSE TagConf(Slice(<<Str_genres>>), TagTypeNone, 0,
                         Slice(<<S1("/"), S1(";")>>))],
        [k \in {Str_year} |->
            TagConf(Slice(<<Str_date, Str_releaseyear>>), TagTypeNone, 4, NilSlice)],
        TagConf(Slice(<<Str_ROLE>>), TagTypeNone, 0, NilSlice),
        ZeroTagConf)

\* two keys of one tier that differ only in case, a split/type conflict in
\* the main tier and in the artists entry
CollideConf ==
    MappingsConf(
        [k \in {Str_genre} |->
            TagConf(Slice(<<Str_genres>>), TagTypeDate, 0, Slice(<<S1("/")>>))],
        [k \in {Str_Year, Str_year} |->
            IF k = Str_Year
            THEN TagConf(Slice(<<Str_TYER>>), TagTypeInteger, 4, NilSlice)
            ELSE TagConf(Slice(<<Str_Date>>), TagTypeNone, 0, Slice(<<>>))],
        TagConf(Slice(<<Str_ROLE, Str_role>>), TagTypeNone, 0, Slice(<<S1(",")>>)),
        TagConf(NilSlice, TagTypeInteger, 0, Slice(<<S1("/")>>)))

Document(exists, wellFormed, conf) ==
    [exists |-> exists, wellFormed |-> wellFormed, content |-> conf]

\* the resource is absent from resources.FS()
MissingDoc == Document(FALSE, FALSE, ZeroMappingsConf)

ExampleDoc == Document(TRUE, TRUE, ExampleConf)

\* documents of the concurrent specification.  content is what
\* decoder.Decode leaves in the target: for a document that is not well
\* formed, whatever was decoded before the error was met.
Docs ==
    {MissingDoc} \cup
    {Document(TRUE, wf, c) :
        wf \in BOOLEAN, c \in {ZeroMappingsConf, ExampleConf, CollideConf}}

\* keys of the generated tiers: two that differ only in case, and a third
Keys == {<<"Y","r">>, <<"y","r">>, S1("g")}

\* entries of the generated tiers
TagConfs ==
    { ZeroTagConf,
      TagConf(Slice(<<<<"D","a">>>>), TagTypeNone, 0, NilSlice),
      TagConf(Slice(<<<<"D","a">>, <<"t","Y">>>>), TagTypeInteger, 4, NilSlice),
      TagConf(Slice(<<<<"d","a">>>>), TagTypeNone, 0, Slice(<<S1("/")>>)),
      TagConf(Slice(<<<<"D","A">>>>), TagTypeInteger, 0, Slice(<<S1("/"), S1(";")>>)),
      TagConf(NilSlice, TagTypeDate, 4, Slice(<<>>)) }

TiersOfSize(n) ==
    UNION {[ks -> TagConfs] : ks \in {s \in SUBSET Keys : Cardinality(s) = n}}

TiersUpTo(n) == UNION {TiersOfSize(i) : i \in 0..n}

\* well-formed documents: every pair of tiers of at most MaxEntries entries
\* in all with zero roles and artists, and every pair of roles and artists
\* entries with empty tiers
TierPairs ==
    UNION {{<<m, a>> : a \in TiersUpTo(MaxEntries - Cardinality(DOMAIN m))} :
              m \in TiersUpTo(MaxEntries)}

NormDocs ==
    {Document(TRUE, TRUE, MappingsConf(ma[1], ma[2], ZeroTagConf, ZeroTagConf)) :
        ma \in TierPairs}
    \cup
    {Document(TRUE, TRUE, MappingsConf(EmptyTagMappings, EmptyTagMappings, r, a)) :
        r \in TagConfs, a \in TagConfs}

(* ------------------------------- state -------------------------------- *)

VARIABLES
    doc,          \* the document "mappings.yaml" of resources.FS()
    pc,           \* pc[t]: where goroutine t is in its accessor call
    acc,          \* acc[t]: the accessor t is calling
    done,         \* sync.Once: done
    locked,       \* sync.Once: the mutex m is held
    valid,        \* sync.OnceValues: valid
    p,            \* sync.OnceValues: the recovered panic value
    r1,           \* sync.OnceValues: first cached result (the resolved mapping)
    r2,           \* sync.OnceValues: second cached result (the decoded mappingsConf)
    execs,        \* number of times the body of parseMappings was entered
    mappingsFile, \* parseMappings: the opened file, or nil
    mappings,     \* parseMappings: the decoded mappingsConf
    normalized,   \* parseMappings: the map under construction
    tier,         \* parseMappings: which collectTags call is running
    todo,         \* collectTags: keys the range loop has not visited yet
    log,          \* the log.Error calls made so far
    returned,     \* the values each accessor has returned so far
    panicked,     \* an accessor call has panicked
    now,          \* milliseconds since consts.ServerStart
    ticks,        \* number of times the clock has advanced
    snapshot,     \* staticData: whether computed, and the cached insights.Data
    cpc,          \* cpc[t]: where goroutine t is in its Collect call
    data,         \* Collect: data[t], the local variable data of t's call
    ran,          \* Collect: libraryUpdate.Do has run the closure of t's call
    sCount,       \* libraryUpdate (rate.Sometimes): count
    sLast,        \* libraryUpdate (rate.Sometimes): last
    sLocked,      \* libraryUpdate (rate.Sometimes): the mutex mu is held
    collects,     \* number of Collect calls made
    out           \* out[t]: what t's last Collect call returned

mappingVars == <<doc, pc, acc, done, locked, valid, p, r1, r2, execs, mappingsFile,
                 mappings, normalized, tier, todo, log, returned, panicked>>

collectVars == <<now, ticks, snapshot, cpc, data, ran, sCount, sLast, sLocked,
                 collects, out>>

vars == <<mappingVars, collectVars>>

onceVars == <<done, locked, valid, p, r1, r2>>

bodyVars == <<mappingsFile, mappings, normalized, tier, todo>>

Accessors == {"mappings", "rolesConf", "artistsConf"}

NilFile == "nil"

OpenFile == "file"

NoPanic == "none"

NilDeref == "invalid memory address or nil pointer dereference"

MappingInit ==
    /\ pc = [t \in Threads |-> "idle"]
    /\ acc = [t \in Threads |-> "mappings"]
    /\ done = FALSE
    /\ locked = FALSE
    /\ valid = FALSE
    /\ p = NoPanic
    /\ r1 = EmptyTagMappings
    /\ r2 = ZeroMappingsConf
    /\ execs = 0
    /\ mappingsFile = NilFile
    /\ mappings = ZeroMappingsConf
    /\ normalized = EmptyTagMappings
    /\ tier = 1
    /\ todo = {}
    /\ log = <<>>
    /\ returned = [a \in Accessors |-> {}]
    /\ panicked = FALSE

(* ------------------------------ insights ------------------------------ *)

LibraryFields ==
    {"Tracks", "Albums", "Artists", "Playlists", "Shares", "Radios", "ActiveUsers"}

\* data.Library when every count query returns n
Library(n) == [f \in LibraryFields |-> n]

InsightsData(static, uptime, library) ==
    [Static |-> static, Uptime |-> uptime, Library |-> library]

\* the zero value of insights.Data
ZeroData == InsightsData("", 0, Library(0))

\* what the function of staticData returns: the id, version, build, OS, FS
\* and config fields are set, Uptime and Library are not
StaticData == InsightsData("id version build os fs config", 0, Library(0))

\* libraryUpdate = rate.Sometimes{Interval: 10 * time.Minute}, in milliseconds
Interval == 600000

\* by how much the clock advances between two steps, in milliseconds
Durations == {1500, 300000, 600000}

NoOutput == [returned |-> FALSE, json |-> ZeroData, updated |-> FALSE]

CollectInit ==
    /\ now = 0
    /\ ticks = 0
    /\ snapshot = [computed |-> FALSE, data |-> ZeroData]
    /\ cpc = [t \in Threads |-> "idle"]
    /\ data = [t \in Threads |-> ZeroData]
    /\ ran = [t \in Threads |-> FALSE]
    /\ sCount = 0
    /\ sLast = 0
    /\ sLocked = FALSE
    /\ collects = 0
    /\ out = [t \in Threads |-> NoOutput]

InitState == MappingInit /\ CollectInit

Init == doc \in Docs /\ InitState

InitNorm == doc \in NormDocs /\ InitState

(* ------------------------ sync.Once / OnceValues ----------------------- *)

\* FastPath that takes a started computation for a finished one
FastPathWhenStarted == done \/ locked

\* Once.Do: if o.done.Load() == 0 { o.doSlow(f) }
FastPath == done

\* an accessor is entered and calls parseMappings(), which calls once.Do(g)
Call(t, a) ==
    /\ pc[t] = "idle"
    /\ acc' = [acc EXCEPT ![t] = a]
    /\ pc' = [pc EXCEPT ![t] = IF FastPath THEN "check" ELSE "doSlow"]
    /\ UNCHANGED <<doc, onceVars, execs, bodyVars, log, returned, panicked>>
    /\ UNCHANGED collectVars

\* doSlow: o.m.Lock(); o.done.Load() != 0; the deferred o.m.Unlock()
LockDone(t) ==
    /\ pc[t] = "doSlow"
    /\ ~locked
    /\ done
    /\ pc' = [pc EXCEPT ![t] = "check"]
    /\ UNCHANGED <<doc, acc, onceVars, execs, bodyVars, log, returned, panicked>>
    /\ UNCHANGED collectVars

\* LockRun without the second look at done under the mutex
LockRunNoRecheck(t) ==
    /\ pc[t] = "doSlow"
    /\ ~locked
    /\ locked' = TRUE
    /\ execs' = execs + 1
    /\ pc' = [pc EXCEPT ![t] = "open"]
    /\ UNCHANGED <<doc, acc, done, valid, p, r1, r2, bodyVars, log, returned, panicked>>
    /\ UNCHANGED collectVars

\* doSlow: o.m.Lock(); o.done.Load() == 0; f() is entered
LockRun(t) ==
    /\ pc[t] = "doSlow"
    /\ ~locked
    /\ ~done
    /\ locked' = TRUE
    /\ execs' = execs + 1
    /\ pc' = [pc EXCEPT ![t] = "open"]
    /\ UNCHANGED <<doc, acc, done, valid, p, r1, r2, bodyVars, log, returned, panicked>>
    /\ UNCHANGED collectVars

(* ---------------------------- parseMappings --------------------------- *)

\* mappingsFile, err := resources.FS().Open("mappings.yaml")
Open(t) ==
    /\ pc[t] = "open"
    /\ mappingsFile' = IF doc.exists THEN OpenFile ELSE NilFile
    /\ log' = IF doc.exists THEN log ELSE Append(log, LogEntry(ErrOpening, NoTag))
    /\ pc' = [pc EXCEPT ![t] = "decode"]
    /\ UNCHANGED <<doc, acc, onceVars, execs, mappings, normalized, tier, todo,
                   returned, panicked>>
    /\ UNCHANGED collectVars

\* TierOrder with the two calls exchanged
TierOrderSwapped == <<"Additional", "Main">>

\* the two collectTags calls of parseMappings, in order
TierOrder == <<"Main", "Additional">>

Tier(i) == mappings[TierOrder[i]]

\* decoder.Decode(&mappings) on an opened file
Decode(t) ==
    /\ pc[t] = "decode"
    /\ mappingsFile # NilFile
    /\ mappings' = doc.content
    /\ log' = IF doc.wellFormed THEN log ELSE Append(log, LogEntry(ErrDecoding, NoTag))
    /\ normalized' = EmptyTagMappings
    /\ tier' = 1
    /\ todo' = DOMAIN doc.content[TierOrder[1]]
    /\ pc' = [pc EXCEPT ![t] = "collect"]
    /\ UNCHANGED <<doc, acc, onceVars, execs, mappingsFile, returned, panicked>>
    /\ UNCHANGED collectVars

\* decoder.Decode(&mappings) on the nil file that a failed Open returned:
\* the decoder reads from a nil io.Reader, a run-time panic, which the
\* deferred functions of OnceValues and of doSlow handle: p = recover(),
\* panic(p) again since valid is false, o.done.Store(1), o.m.Unlock().
\* The panic leaves the accessor; the caller may recover from it.
DecodePanic(t) ==
    /\ pc[t] = "decode"
    /\ mappingsFile = NilFile
    /\ p' = NilDeref
    /\ done' = TRUE
    /\ locked' = FALSE
    /\ panicked' = TRUE
    /\ pc' = [pc EXCEPT ![t] = "idle"]
    /\ UNCHANGED <<doc, acc, valid, r1, r2, execs, bodyVars, log, returned>>
    /\ UNCHANGED collectVars

\* the loop variable v after "v.Split = nil" of the split/type test
LoopValue(v) == IF SplitConflict(v) THEN [v EXCEPT !.Split = NilSlice] ELSE v

\* RangeCopy with v a reference to the entry of the map
RangeAlias(m, k, v) == [m EXCEPT ![k] = v]

\* for k, v := range tagMappings: v is a copy of the tagConf stored under k,
\* so the tier m is what it was after the loop body has assigned to v
RangeCopy(m, k, v) == m

\* CollectTags that leaves out an entry with a split/type conflict
CollectTagsSkipConflict(t) ==
    /\ pc[t] = "collect"
    /\ \E k \in todo :
        LET v == Tier(tier)[k] IN
        /\ log' = IF SplitConflict(v) THEN Append(log, LogEntry(ErrSplit, k)) ELSE log
        /\ normalized' = IF SplitConflict(v)
                         THEN normalized
                         ELSE Put(normalized, TagNameToLower(k), NormalizedConf(v))
        /\ mappings' = [mappings EXCEPT ![TierOrder[tier]] = RangeCopy(@, k, LoopValue(v))]
        /\ todo' = todo \ {k}
    /\ UNCHANGED <<doc, pc, acc, onceVars, execs, mappingsFile, tier,
                   returned, panicked>>
    /\ UNCHANGED collectVars

\* one iteration of the range loop of collectTags, over the tier at hand
CollectTags(t) ==
    /\ pc[t] = "collect"
    /\ \E k \in todo :
        LET v == Tier(tier)[k] IN
        /\ log' = IF SplitConflict(v) THEN Append(log, LogEntry(ErrSplit, k)) ELSE log
        /\ normalized' = Put(normalized, TagNameToLower(k), NormalizedConf(v))
        /\ mappings' = [mappings EXCEPT ![TierOrder[tier]] = RangeCopy(@, k, LoopValue(v))]
        /\ todo' = todo \ {k}
    /\ UNCHANGED <<doc, pc, acc, onceVars, execs, mappingsFile, tier,
                   returned, panicked>>
    /\ UNCHANGED collectVars

\* collectTags returns and parseMappings calls it on the next tier
NextTier(t) ==
    /\ pc[t] = "collect"
    /\ todo = {}
    /\ tier < Len(TierOrder)
    /\ tier' = tier + 1
    /\ todo' = DOMAIN Tier(tier + 1)
    /\ UNCHANGED <<doc, pc, acc, onceVars, execs, mappingsFile, mappings, normalized,
                   log, returned, panicked>>
    /\ UNCHANGED collectVars

\* return normalized, mappings; OnceValues: r1, r2 = f(); valid = true
Finish(t) ==
    /\ pc[t] = "collect"
    /\ todo = {}
    /\ tier = Len(TierOrder)
    /\ r1' = normalized
    /\ r2' = mappings
    /\ valid' = TRUE
    /\ pc' = [pc EXCEPT ![t] = "unlock"]
    /\ UNCHANGED <<doc, acc, done, locked, p, execs, bodyVars, log, returned, panicked>>
    /\ UNCHANGED collectVars

\* Unlock that leaves done unset
UnlockNoDone(t) ==
    /\ pc[t] = "unlock"
    /\ locked' = FALSE
    /\ pc' = [pc EXCEPT ![t] = "check"]
    /\ UNCHANGED <<doc, acc, done, valid, p, r1, r2, execs, bodyVars, log, returned,
                   panicked>>
    /\ UNCHANGED collectVars

\* doSlow's deferred o.done.Store(1) and o.m.Unlock()
Unlock(t) ==
    /\ pc[t] = "unlock"
    /\ done' = TRUE
    /\ locked' = FALSE
    /\ pc' = [pc EXCEPT ![t] = "check"]
    /\ UNCHANGED <<doc, acc, valid, p, r1, r2, execs, bodyVars, log, returned, panicked>>
    /\ UNCHANGED collectVars

(* ------------------------------ accessors ----------------------------- *)

\* AccessorResult that normalizes the roles and artists entries
AccessorResultNormalized(a) ==
    CASE a = "mappings" -> r1
      [] a = "rolesConf" -> NormalizedConf(r2.Roles)
      [] a = "artistsConf" -> NormalizedConf(r2.Artists)

\* what mappings(), rolesConf() and artistsConf() pick from the cached pair
AccessorResult(a) ==
    CASE a = "mappings" -> r1
      [] a = "rolesConf" -> r2.Roles
      [] a = "artistsConf" -> r2.Artists

\* OnceValues: return r1, r2; the accessor returns its part
Return(t) ==
    /\ pc[t] = "check"
    /\ valid
    /\ returned' = [returned EXCEPT ![acc[t]] = @ \cup {AccessorResult(acc[t])}]
    /\ pc' = [pc EXCEPT ![t] = "idle"]
    /\ UNCHANGED <<doc, acc, onceVars, execs, bodyVars, log, panicked>>
    /\ UNCHANGED collectVars

\* OnceValues: if !valid { panic(p) }
Panic(t) ==
    /\ pc[t] = "check"
    /\ ~valid
    /\ panicked' = TRUE
    /\ pc' = [pc EXCEPT ![t] = "idle"]
    /\ UNCHANGED <<doc, acc, onceVars, execs, bodyVars, log, returned>>
    /\ UNCHANGED collectVars

(* ------------------------------- Collect ------------------------------ *)

\* StaticCopy with data a reference to the cached value
StaticShared(cached, local) == local

\* data := staticData(): insights.Data is returned by value and Uptime and
\* Library are fields of the struct itself, so the cached value is what it
\* was after Collect has assigned to its local copy
StaticCopy(cached, local) == cached

\* data := staticData(); sync.OnceValue runs the function on the first call
Collect(t) ==
    /\ cpc[t] = "idle"
    /\ collects < MaxCollects
    /\ collects' = collects + 1
    /\ snapshot' = IF snapshot.computed
                   THEN snapshot
                   ELSE [computed |-> TRUE, data |-> StaticData]
    /\ data' = [data EXCEPT ![t] = snapshot'.data]
    /\ ran' = [ran EXCEPT ![t] = FALSE]
    /\ cpc' = [cpc EXCEPT ![t] = "uptime"]
    /\ UNCHANGED <<now, ticks, sCount, sLast, sLocked, out>>
    /\ UNCHANGED mappingVars

\* data.Uptime = time.Since(consts.ServerStart).Milliseconds() / 1000
SetUptime(t) ==
    /\ cpc[t] = "uptime"
    /\ data' = [data EXCEPT ![t].Uptime = now \div 1000]
    /\ snapshot' = [snapshot EXCEPT !.data = StaticCopy(@, data'[t])]
    /\ cpc' = [cpc EXCEPT ![t] = "do"]
    /\ UNCHANGED <<now, ticks, ran, sCount, sLast, sLocked, collects, out>>
    /\ UNCHANGED mappingVars

\* rate.Sometimes.Do: with Every and First unset, f runs on the first call
\* and when Interval has passed since it last ran
SometimesRuns == sCount = 0 \/ now - sLast >= Interval

\* libraryUpdate.Do: s.mu.Lock() and the test
DoLock(t) ==
    /\ cpc[t] = "do"
    /\ ~sLocked
    /\ sLocked' = TRUE
    /\ cpc' = [cpc EXCEPT ![t] = IF SometimesRuns THEN "update" ELSE "unlock"]
    /\ UNCHANGED <<now, ticks, snapshot, data, ran, sCount, sLast, collects, out>>
    /\ UNCHANGED mappingVars

\* the closure: the count queries return n and fill data.Library; then
\* s.last = time.Now()
Update(t) ==
    /\ cpc[t] = "update"
    /\ \E n \in 0..MaxCount : data' = [data EXCEPT ![t].Library = Library(n)]
    /\ snapshot' = [snapshot EXCEPT !.data = StaticCopy(@, data'[t])]
    /\ ran' = [ran EXCEPT ![t] = TRUE]
    /\ sLast' = now
    /\ cpc' = [cpc EXCEPT ![t] = "unlock"]
    /\ UNCHANGED <<now, ticks, sCount, sLocked, collects, out>>
    /\ UNCHANGED mappingVars

\* libraryUpdate.Do: s.count++ and the deferred s.mu.Unlock()
DoUnlock(t) ==
    /\ cpc[t] = "unlock"
    /\ sCount' = sCount + 1
    /\ sLocked' = FALSE
    /\ cpc' = [cpc EXCEPT ![t] = "marshal"]
    /\ UNCHANGED <<now, ticks, snapshot, data, ran, sLast, collects, out>>
    /\ UNCHANGED mappingVars

\* json.Marshal(data) and return string(resp): the JSON text holds every
\* field of data, and out keeps the fields
Marshal(t) ==
    /\ cpc[t] = "marshal"
    /\ out' = [out EXCEPT ![t] = [returned |-> TRUE, json |-> data[t], updated |-> ran[t]]]
    /\ cpc' = [cpc EXCEPT ![t] = "idle"]
    /\ UNCHANGED <<now, ticks, snapshot, data, ran, sCount, sLast, sLocked, collects>>
    /\ UNCHANGED mappingVars

\* time passes
Tick ==
    /\ ticks < MaxTicks
    /\ \E d \in Durations : now' = now + d
    /\ ticks' = ticks + 1
    /\ UNCHANGED <<snapshot, cpc, data, ran, sCount, sLast, sLocked, collects, out>>
    /\ UNCHANGED mappingVars

(* --------------------------- specifications --------------------------- *)

Next ==
    \E t \in Threads :
        \/ \E a \in Accessors : Call(t, a)
        \/ LockDone(t)
        \/ LockRun(t)
        \/ Open(t)
        \/ Decode(t)
        \/ DecodePanic(t)
        \/ CollectTags(t)
        \/ NextTier(t)
        \/ Finish(t)
        \/ Unlock(t)
        \/ Return(t)
        \/ Panic(t)

Spec == Init /\ [][Next]_vars

\* the accessors called by one goroutine, on the documents of NormDocs
FirstThread == CHOOSE t \in Threads : \A u \in Threads : t <= u

NextNorm ==
    \/ \E a \in Accessors : Call(FirstThread, a)
    \/ LockRun(FirstThread)
    \/ Open(FirstThread)
    \/ Decode(FirstThread)
    \/ CollectTags(FirstThread)
    \/ NextTier(FirstThread)
    \/ Finish(FirstThread)
    \/ Unlock(FirstThread)
    \/ Return(FirstThread)

SpecNorm == InitNorm /\ [][NextNorm]_vars

\* the steps of goroutine t inside an accessor call
ThreadStep(t) ==
    \/ LockDone(t)
    \/ LockRun(t)
    \/ Open(t)
    \/ Decode(t)
    \/ DecodePanic(t)
    \/ CollectTags(t)
    \/ NextTier(t)
    \/ Finish(t)
    \/ Unlock(t)
    \/ Return(t)
    \/ Panic(t)

\* the Go scheduler runs every goroutine that can run; whether and when an
\* accessor is called is left to the callers
Fairness == \A t \in Threads : WF_vars(ThreadStep(t))

SpecFair == Init /\ [][Next]_vars /\ Fairness

InitCollect == doc = ExampleDoc /\ MappingInit /\ CollectInit

NextCollect ==
    \/ \E t \in Threads :
        \/ Collect(t)
        \/ SetUptime(t)
        \/ DoLock(t)
        \/ Update(t)
        \/ DoUnlock(t)
        \/ Marshal(t)
    \/ Tick

\* concurrent Collect calls
SpecCollect == InitCollect /\ [][NextCollect]_vars

(* ------------------------- vocabulary of the claims -------------------- *)

IsLowerStr(s) == \A i \in 1..Len(s) : ~IsUpperChar(s[i])

SliceEmpty(s) == Len(s.elems) = 0

LowerKeys(m) == {ToLower(k) : k \in DOMAIN m}

\* the keys of tier m that are written to the resolved key k
KeysOnto(m, k) == {x \in DOMAIN m : ToLower(x) = k}

\* v declares a non-empty split together with a type
DeclaresSplitAndType(v) == (~SliceEmpty(v.Split)) /\ v.Type # TagTypeNone

\* e is the source entry v normalized, field by field (value equality:
\* a nil slice and an empty slice are the same value)
IsNormalizedFrom(e, v) ==
    /\ e.Type = v.Type
    /\ e.MaxLength = v.MaxLength
    /\ Len(e.Aliases.elems) = Len(v.Aliases.elems)
    /\ \A i \in 1..Len(v.Aliases.elems) : e.Aliases.elems[i] = ToLower(v.Aliases.elems[i])
    /\ e.Split.elems = IF DeclaresSplitAndType(v) THEN <<>> ELSE v.Split.elems

\* value equality of two tagConf
SameConf(e, f) ==
    /\ e.Type = f.Type
    /\ e.MaxLength = f.MaxLength
    /\ e.Aliases.elems = f.Aliases.elems
    /\ e.Split.elems = f.Split.elems

Running == {t \in Threads : pc[t] \in {"open", "decode", "collect", "unlock"}}

(* --------------------------------- C1 ---------------------------------- *)

\* C1: the body of parseMappings is entered at most once, whatever the
\* interleaving of the callers, and every value an accessor has returned is
\* the accessor's part of what that one execution computed (its normalized
\* map and its decoded mappingsConf).
C1_BodyAtMostOnce ==
    /\ execs <= 1
    /\ \A m \in returned["mappings"] : execs = 1 /\ m = normalized
    /\ \A c \in returned["rolesConf"] : execs = 1 /\ c = mappings.Roles
    /\ \A c \in returned["artistsConf"] : execs = 1 /\ c = mappings.Artists

\* all three accessors have returned after one execution, while a caller
\* that arrived before the execution had finished is still in doSlow
C1_Witness ==
    /\ execs = 1
    /\ \A a \in Accessors : returned[a] # {}
    /\ \E t \in Threads : pc[t] = "doSlow"

(* --------------------------------- C2 ---------------------------------- *)

\* C2: a caller is past once.Do only when the computation has completed,
\* callers that arrive during the computation stay in doSlow, and a mapping
\* that was returned holds every key of both tiers, the keys of the
\* additional tier with an additional entry.
C2_NoPartialResult ==
    /\ \A t \in Threads : pc[t] = "check" => done /\ Running = {}
    /\ \A m \in returned["mappings"] :
        /\ done
        /\ DOMAIN m = LowerKeys(doc.content.Main) \cup LowerKeys(doc.content.Additional)
        /\ \A k \in LowerKeys(doc.content.Additional) :
              \E x \in KeysOnto(doc.content.Additional, k) :
                  IsNormalizedFrom(m[k], doc.content.Additional[x])

\* a mapping of a document with two main entries and an additional tier was
\* returned, and a caller that arrived before completion is still queued
C2_Witness ==
    /\ returned["mappings"] # {}
    /\ Cardinality(DOMAIN doc.content.Main) >= 2
    /\ DOMAIN doc.content.Additional # {}
    /\ \E t \in Threads : pc[t] = "doSlow" /\ acc[t] = "mappings"

(* --------------------------------- C3 ---------------------------------- *)

\* C3: for every key whose lower-cased form occurs in both tiers, the entry
\* of the returned mapping is an additional entry of that key, normalized,
\* in every field.
C3_AdditionalWins ==
    \A m \in returned["mappings"] :
        \A k \in LowerKeys(doc.content.Main) \cap LowerKeys(doc.content.Additional) :
            \E x \in KeysOnto(doc.content.Additional, k) :
                IsNormalizedFrom(m[k], doc.content.Additional[x])

\* a returned mapping for a key of both tiers whose two entries differ in
\* maxLength, in type and in aliases
C3_Witness ==
    /\ returned["mappings"] # {}
    /\ \E x \in DOMAIN doc.content.Main, y \in DOMAIN doc.content.Additional :
        /\ ToLower(x) = ToLower(y)
        /\ doc.content.Main[x].MaxLength # doc.content.Additional[y].MaxLength
        /\ doc.content.Main[x].Type # doc.content.Additional[y].Type
        /\ doc.content.Main[x].Aliases # doc.content.Additional[y].Aliases

(* --------------------------------- C4 ---------------------------------- *)

\* C4: no entry of a returned mapping has a non-empty split together with a
\* type; and the entry that collectTags stores for a source entry declaring
\* a non-empty split and a type has that type and an empty split.
C4_SplitOrType ==
    /\ [](\A m \in returned["mappings"] : \A k \in DOMAIN m :
             ~DeclaresSplitAndType(m[k]))
    /\ [][\A x \in todo \ todo' :
             DeclaresSplitAndType(Tier(tier)[x]) =>
                 /\ normalized'[ToLower(x)].Type = Tier(tier)[x].Type
                 /\ SliceEmpty(normalized'[ToLower(x)].Split)]_vars

\* a returned mapping holds a typed entry without split whose only source
\* declares a non-empty split and that type
C4_Witness ==
    \E m \in returned["mappings"] :
        \E x \in DOMAIN doc.content.Additional :
            /\ KeysOnto(doc.content.Additional, ToLower(x)) = {x}
            /\ DeclaresSplitAndType(doc.content.Additional[x])
            /\ m[ToLower(x)].Type = doc.content.Additional[x].Type
            /\ SliceEmpty(m[ToLower(x)].Split)

(* --------------------------------- C5 ---------------------------------- *)

\* C5: every key of a returned mapping and every alias of its entries is
\* lower-case.
C5_LowerCase ==
    \A m \in returned["mappings"] :
        \A k \in DOMAIN m :
            /\ IsLowerStr(k)
            /\ \A i \in 1..Len(m[k].Aliases.elems) : IsLowerStr(m[k].Aliases.elems[i])

\* a mapping was returned for a document with an upper-case letter in a key
\* and in an alias, in each of the two tiers
C5_Witness ==
    /\ returned["mappings"] # {}
    /\ \E x \in DOMAIN doc.content.Main :
        /\ ~IsLowerStr(x)
        /\ \E i \in 1..Len(doc.content.Main[x].Aliases.elems) :
              ~IsLowerStr(doc.content.Main[x].Aliases.elems[i])
    /\ \E y \in DOMAIN doc.content.Additional :
        /\ ~IsLowerStr(y)
        /\ \E i \in 1..Len(doc.content.Additional[y].Aliases.elems) :
              ~IsLowerStr(doc.content.Additional[y].Aliases.elems[i])

(* --------------------------------- C6 ---------------------------------- *)

SubConfsReturned == returned["rolesConf"] \cup returned["artistsConf"]

ErrorsLogged == {i \in 1..Len(log) : log[i].msg \in {ErrOpening, ErrDecoding}}

\* C7: when the document cannot be opened no accessor call panics, one
\* error is logged once the computation has run, and never more, mappings()
\* returns an empty mapping and rolesConf() and artistsConf() zero values.
C7_OpenFailureDegrades ==
    (~doc.exists) =>
        /\ ~panicked
        /\ Cardinality(ErrorsLogged) <= 1
        /\ (done => Cardinality(ErrorsLogged) = 1)
        /\ \A m \in returned["mappings"] : DOMAIN m = {}
        /\ \A c \in SubConfsReturned : SameConf(c, ZeroTagConf)

(* --------------------------------- C8 ---------------------------------- *)

\* C8: once an execution has ended with an open or decode error, the body
\* has run once, each error is in the log once, and every call made since
\* has returned, each accessor one value.
C8_FailureOneShot ==
    (done /\ ErrorsLogged # {}) =>
        /\ execs = 1
        /\ \A i, j \in ErrorsLogged : log[i].msg = log[j].msg => i = j
        /\ ~panicked
        /\ \A a \in Accessors : Cardinality(returned[a]) <= 1

(* --------------------------------- C9 ---------------------------------- *)

ExampleGenre ==
    TagConf(Slice(<<Str_genres>>), TagTypeNone, 0, Slice(<<S1("/"), S1(";")>>))

\* C9 as stated: on the example document year resolves to aliases
\* [date, releaseyear], type integer, maxLength 4 and no split, genre to
\* aliases [genres], no type, maxLength 0 and split ["/", ";"].
C9_ExampleTypeInteger ==
    doc = ExampleDoc =>
        \A m \in returned["mappings"] :
            /\ DOMAIN m = {Str_year, Str_genre}
            /\ SameConf(m[Str_year],
                        TagConf(Slice(<<Str_date, Str_releaseyear>>), TagTypeInteger, 4,
                                NilSlice))
            /\ SameConf(m[Str_genre], ExampleGenre)

\* C9 amended: year resolves to aliases [date, releaseyear], type none,
\* maxLength 4 and no split; genre as stated.
C9_ExampleTypeNone ==
    doc = ExampleDoc =>
        \A m \in returned["mappings"] :
            /\ DOMAIN m = {Str_year, Str_genre}
            /\ SameConf(m[Str_year],
                        TagConf(Slice(<<Str_date, Str_releaseyear>>), TagTypeNone, 4,
                                NilSlice))
            /\ SameConf(m[Str_genre], ExampleGenre)

\* mappings() has returned on the example document
C9_Witness == doc = ExampleDoc /\ returned["mappings"] # {}

(* --------------------------------- C10 --------------------------------- *)

\* C10: each accessor has returned one value at most, whatever the number
\* of calls and their interleaving, and no step changes the cached results
\* once the computation has completed.
C10_StableResults ==
    /\ [](\A a \in Accessors : Cardinality(returned[a]) <= 1)
    /\ [][done => UNCHANGED <<valid, p, r1, r2>>]_vars

\* an accessor that has returned already is about to return to another
\* call, on a document whose resolved mapping depends on the iteration order
C10_Witness ==
    /\ doc.content = CollideConf
    /\ \A a \in Accessors : returned[a] # {}
    /\ \E t \in Threads : pc[t] = "check" /\ valid /\ acc[t] = "mappings"

(* --------------------------------- C11 --------------------------------- *)

\* v declares its aliases only
OnlyAliases(v) == v.Type = TagTypeNone /\ v.MaxLength = 0 /\ v.Split.nil

\* C11: the entry that an iteration of collectTags stores has the type and
\* the maxLength of its source entry, and its split unless the source
\* declares a non-empty split and a type; for a source that declares only
\* aliases it has no type, maxLength 0 and no split.
C11_FieldsCopied ==
    [][\A x \in todo \ todo' :
          LET v == Tier(tier)[x]
              e == normalized'[ToLower(x)]
          IN /\ e.Type = v.Type
             /\ e.MaxLength = v.MaxLength
             /\ (~DeclaresSplitAndType(v)) => e.Split.elems = v.Split.elems
             /\ OnlyAliases(v) =>
                   e.Type = TagTypeNone /\ e.MaxLength = 0 /\ SliceEmpty(e.Split)]_vars

\* the map under construction holds an entry with a type and a maxLength,
\* an entry with a split, and an entry whose source declares only aliases
C11_Witness ==
    /\ \E t \in Threads : pc[t] = "collect"
    /\ \E k \in DOMAIN normalized :
          normalized[k].MaxLength # 0 /\ normalized[k].Type # TagTypeNone
    /\ \E x \in DOMAIN doc.content.Additional \ todo :
          /\ tier = Len(TierOrder)
          /\ OnlyAliases(doc.content.Additional[x])
          /\ ~SliceEmpty(doc.content.Additional[x].Aliases)
          /\ SameConf(normalized[ToLower(x)],
                      TagConf(Slice(<<ToLower(doc.content.Additional[x].Aliases.elems[1])>>),
                              TagTypeNone, 0, NilSlice))

(* --------------------------------- C12 --------------------------------- *)

\* every accessor call ends, by a return or by a panic
CallsEnd == \A t \in Threads : (pc[t] # "idle") ~> (pc[t] = "idle")

\* C12: under fair scheduling every accessor call ends, and it ends by
\* returning the accessor's part of the cached results.
C12_CallsReturn ==
    /\ CallsEnd
    /\ [][\A t \in Threads :
             (pc[t] # "idle" /\ pc'[t] = "idle") =>
                 /\ pc[t] = "check"
                 /\ valid
                 /\ AccessorResult(acc[t]) \in returned'[acc[t]]]_vars

(* --------------------------------- C13 --------------------------------- *)

\* collectTags on tier m into n, the keys ks visited in one fixed order
RECURSIVE CollectInOrder(_, _, _)
CollectInOrder(m, ks, n) ==
    IF ks = {}
    THEN n
    ELSE LET k == CHOOSE x \in ks : TRUE
         IN CollectInOrder(m, ks \ {k}, Put(n, ToLower(k), NormalizedConf(m[k])))

\* the mapping that the fixed order resolves the decoded document c to
ResolveInOrder(c) ==
    CollectInOrder(c.Additional, DOMAIN c.Additional,
                   CollectInOrder(c.Main, DOMAIN c.Main, EmptyTagMappings))

\* C13: the resolved mapping is determined by the decoded document: whatever
\* order collectTags visits the entries of a tier in, mappings() returns the
\* mapping that one fixed order of visit yields.
C13_OrderIndependent ==
    \A m \in returned["mappings"] : m = ResolveInOrder(doc.content)

(* --------------------------------- C14 --------------------------------- *)

\* C14: an iteration of collectTags logs a diagnostic, one, for its entry
\* exactly when the entry declares a non-empty split and a type; for an
\* entry with an empty split or without a type it logs nothing.
C14_DiagnosticIffConflict ==
    [][\A x \in todo \ todo' :
          IF DeclaresSplitAndType(Tier(tier)[x])
          THEN log' = Append(log, LogEntry(ErrSplit, x))
          ELSE log' = log]_vars

(* --------------------------------- C15 --------------------------------- *)

\* C15: the keys of a returned mapping are the lower-cased keys of the main
\* tier and of the additional tier, all of them and no other.
C15_NoEntryDropped ==
    \A m \in returned["mappings"] :
        /\ \A x \in DOMAIN doc.content.Main : ToLower(x) \in DOMAIN m
        /\ \A x \in DOMAIN doc.content.Additional : ToLower(x) \in DOMAIN m
        /\ \A k \in DOMAIN m :
              KeysOnto(doc.content.Main, k) \cup KeysOnto(doc.content.Additional, k) # {}

\* a returned mapping holds the key of an entry without aliases and the key
\* of an entry with a split/type conflict
C15_Witness ==
    \E m \in returned["mappings"] :
        \E x \in DOMAIN doc.content.Main, y \in DOMAIN doc.content.Additional :
            /\ ToLower(x) # ToLower(y)
            /\ SliceEmpty(doc.content.Main[x].Aliases)
            /\ DeclaresSplitAndType(doc.content.Additional[y])
            /\ {ToLower(x), ToLower(y)} \subseteq DOMAIN m

(* --------------------------------- C16 --------------------------------- *)

\* C16: collectTags leaves the tiers it reads as decoded, and the
\* mappingsConf cached with the resolved mapping is the decoded document.
C16_TiersUntouched ==
    /\ [][\A x \in todo \ todo' : mappings' = mappings]_vars
    /\ [](valid => r2 = doc.content)

\* the cached mappingsConf holds a split and a type for an entry whose
\* resolved entry has lost the split
C16_Witness ==
    /\ valid
    /\ \E x \in DOMAIN r2.Additional :
          /\ DeclaresSplitAndType(r2.Additional[x])
          /\ KeysOnto(r2.Additional, ToLower(x)) = {x}
          /\ SliceEmpty(r1[ToLower(x)].Split)

(* --------------------------------- C17 --------------------------------- *)

\* C17: the value cached by staticData is the one its function returned,
\* with uptime and library counts zero, whatever Collect calls have run; a
\* Collect call starts from that value; and a call whose library update the
\* rate limiter skipped returns zero library counts.
C17_SnapshotUntouched ==
    /\ snapshot.computed => snapshot.data = StaticData
    /\ \A t \in Threads : cpc[t] = "uptime" => data[t] = StaticData
    /\ \A t \in Threads :
          (out[t].returned /\ ~out[t].updated) => out[t].json.Library = Library(0)

\* one call has returned the counts it fetched and its uptime, a later call
\* whose update was skipped has returned zero counts, and the cached value
\* holds neither
C17_Witness ==
    \E t, u \in Threads :
        /\ out[t].returned /\ out[t].updated
        /\ out[t].json.Library # Library(0)
        /\ out[u].returned /\ ~out[u].updated
        /\ out[u].json.Library = Library(0)
        /\ out[u].json.Uptime > out[t].json.Uptime
        /\ snapshot.data = StaticData

====
